---- MODULE Spec2Model ----
(***************************************************************************)
(* Model of the MCP45HX51 I2C digital potentiometer driver                 *)
(* (MCP45HX51I2C.py, class Mcp45hx51).                                     *)
(*                                                                         *)
(* The state is the driver object's cached fields, the record of the last  *)
(* public call with the bus transactions it issued, and the history of     *)
(* what went over the bus to the two chip registers.  Every public method  *)
(* is one action; each bus transaction may fail (the transport raises),    *)
(* which ends the call at that point, as an exception does in the source.  *)
(* What the bus returns to a read is an input of the call.  _print_debug    *)
(* only prints and is left out.                                            *)
(***************************************************************************)
EXTENDS Integers, Sequences, FiniteSets, TLC

VARIABLES phase, wiper_value, r0hw, r0a, r0w, r0b,
          op, tx, wiper_sent, wiper_io, tcon_written

vars == <<phase, wiper_value, r0hw, r0a, r0w, r0b,
          op, tx, wiper_sent, wiper_io, tcon_written>>

(***************************************************************************)
(* Bounds of the model                                                     *)
(***************************************************************************)
\* wiper values tried: 0..MaxSample and (255-MaxSample)..255, plus -1 and 256
MaxSample == 1
\* step counts tried by wiper_increment / wiper_decrement: -1..MaxSteps
MaxSteps == 3

(***************************************************************************)
(* Register map and command encoding                                       *)
(***************************************************************************)
_MEM_WIPER == 0
_MEM_TCON == 64
_COM_WRITE == 0
_COM_READ == 12
_COM_WIPERINC == 4
_COM_WIPERDEC == 8
_TCON_1111 == 240
_p_r0hw == 3
_p_r0a == 2
_p_r0w == 1
_p_r0b == 0

\* a field that has not been assigned, a call without argument or result, a
\* transaction without register command byte, a register nothing has gone to
None == "None"

(***************************************************************************)
(* Python integer operators on non-negative integers                       *)
(***************************************************************************)
RECURSIVE BitXor(_, _)
BitXor(a, b) ==
    IF a = 0 /\ b = 0 THEN 0
    ELSE (((a % 2) + (b % 2)) % 2) + 2 * BitXor(a \div 2, b \div 2)

RECURSIVE BitOr(_, _)
BitOr(a, b) ==
    IF a = 0 /\ b = 0 THEN 0
    ELSE (IF a % 2 = 1 \/ b % 2 = 1 THEN 1 ELSE 0) + 2 * BitOr(a \div 2, b \div 2)

RECURSIVE BitAnd(_, _)
BitAnd(a, b) ==
    IF a = 0 \/ b = 0 THEN 0
    ELSE (IF a % 2 = 1 /\ b % 2 = 1 THEN 1 ELSE 0) + 2 * BitAnd(a \div 2, b \div 2)

\* x << n
Shl(x, n) == x * (2 ^ n)

\* a bool used as an int: True is 1, False is 0
IntOf(flag) == IF flag THEN 1 ELSE 0

\* bool(x) of an int
BoolOf(x) == x # 0

\* bytes([value]) raises ValueError unless 0 <= value <= 255
InByteRange(value) == value >= 0 /\ value <= 255

\* len(range(offset))
RangeLen(offset) == IF offset > 0 THEN offset ELSE 0

(***************************************************************************)
(* Inputs                                                                  *)
(***************************************************************************)
ByteSample == (0..MaxSample) \cup ((255 - MaxSample)..255)
WiperInputs == ByteSample \cup {-1, 256}
StepInputs == -1..MaxSteps
\* first byte of a two-byte register read (discarded by the driver)
EchoBytes == {0, 255}
\* second byte of a Terminal-Control read: every low nibble, with the upper
\* nibble all ones (as the driver always writes it) or all zeros
TconReadBytes == {h * 16 + n : h \in {0, 15}, n \in 0..15}

(***************************************************************************)
(* Bus transactions                                                        *)
(***************************************************************************)
\* one call of an i2c method: by is the driver method that made it, memaddr
\* the register command byte (None for a raw write), buf the bytes written
\* or received, ok whether the transport returned without raising
Tx(by, kind, memaddr, buf, nbytes, ok) ==
    [by |-> by, kind |-> kind, memaddr |-> memaddr, buf |-> buf,
     nbytes |-> nbytes, ok |-> ok]

\* a call of a public method: ok when it returned, not ok when it raised
Call(name, arg, ok, ret) == [name |-> name, arg |-> arg, ok |-> ok, ret |-> ret]

\* WiperSetTx with the read command in place of the write command
WiperSetTx_read(value, ok) ==
    Tx("wiper_set", "writeto_mem", _COM_READ, <<value>>, 1, ok)

\* i2c.writeto_mem(address, _COM_WRITE, bytes([value])) in wiper_set
WiperSetTx(value, ok) ==
    Tx("wiper_set", "writeto_mem", _COM_WRITE, <<value>>, 1, ok)

\* i2c.readfrom_mem(address, _MEM_WIPER | _COM_READ, 2) in wiper_read
WiperReadTx(buf, ok) ==
    Tx("wiper_read", "readfrom_mem", BitOr(_MEM_WIPER, _COM_READ), buf, 2, ok)

\* i2c.writeto(address, bytes([_COM_WIPERINC])) in wiper_increment
WiperIncTx(ok) ==
    Tx("wiper_increment", "writeto", None, <<_COM_WIPERINC>>, 1, ok)

\* WiperDecTx sending the increment command
WiperDecTx_inc(ok) ==
    Tx("wiper_decrement", "writeto", None, <<_COM_WIPERINC>>, 1, ok)

\* i2c.writeto(address, bytes([_COM_WIPERDEC])) in wiper_decrement
WiperDecTx(ok) ==
    Tx("wiper_decrement", "writeto", None, <<_COM_WIPERDEC>>, 1, ok)

\* i2c.readfrom_mem(address, _MEM_TCON | _COM_READ, 2) in tcon_read
TconReadTx(buf, ok) ==
    Tx("tcon_read", "readfrom_mem", BitOr(_MEM_TCON, _COM_READ), buf, 2, ok)

\* TconData with the bit positions of r0a and r0w exchanged
TconData_swapped(hw, a, w, b) ==
    BitXor(BitXor(BitXor(BitXor(_TCON_1111,
                                Shl(IntOf(b), _p_r0b)),
                         Shl(IntOf(w), _p_r0a)),
                  Shl(IntOf(a), _p_r0w)),
           Shl(IntOf(hw), _p_r0hw))

\* the byte _tcon_write computes:
\* _TCON_1111 ^ r0b << _p_r0b ^ r0w << _p_r0w ^ r0a << _p_r0a ^ r0hw << _p_r0hw
TconData(hw, a, w, b) ==
    BitXor(BitXor(BitXor(BitXor(_TCON_1111,
                                Shl(IntOf(b), _p_r0b)),
                         Shl(IntOf(w), _p_r0w)),
                  Shl(IntOf(a), _p_r0a)),
           Shl(IntOf(hw), _p_r0hw))

\* i2c.writeto_mem(address, _MEM_TCON | _COM_WRITE, bytes([__tcon_data]))
TconWriteTx(data, ok) ==
    Tx("_tcon_write", "writeto_mem", BitOr(_MEM_TCON, _COM_WRITE), <<data>>, 1, ok)

\* DecodeR0w testing the bit of r0a
DecodeR0w_mask4(tcon) == BoolOf(BitAnd(tcon, 4))

\* the flags tcon_read decodes from the register byte
DecodeR0b(tcon) == BoolOf(BitAnd(tcon, 1))
DecodeR0w(tcon) == BoolOf(BitAnd(tcon, 2))
DecodeR0a(tcon) == BoolOf(BitAnd(tcon, 4))
DecodeR0hw(tcon) == BoolOf(BitAnd(tcon, 8))

\* how many transactions `for _ in range(offset): i2c.writeto(...)` issues:
\* all of them when none fails (failAt = 0), else up to the one that raises
Issued(offset, failAt) == IF failAt = 0 THEN RangeLen(offset) ELSE failAt

\* the transactions of the loop of wiper_increment
WiperIncLoop(offset, failAt) ==
    [i \in 1..Issued(offset, failAt) |-> WiperIncTx(i # failAt)]

\* the transactions of the loop of wiper_decrement
WiperDecLoop(offset, failAt) ==
    [i \in 1..Issued(offset, failAt) |-> WiperDecTx(i # failAt)]

(***************************************************************************)
(* Initial state: no driver object has been constructed                    *)
(***************************************************************************)
Init ==
    /\ phase = "none"
    /\ wiper_value = None
    /\ r0hw = None
    /\ r0a = None
    /\ r0w = None
    /\ r0b = None
    /\ op = Call("none", None, TRUE, None)
    /\ tx = <<>>
    /\ wiper_sent = None
    /\ wiper_io = None
    /\ tcon_written = None

(***************************************************************************)
(* Methods                                                                 *)
(***************************************************************************)
\* _tcon_write(), called last by the method `name`(arg) with the flags as that
\* method has set them: computes the byte, writes it, and the method returns;
\* when the write raises, so does the method.  The byte is also kept in the
\* private attribute __tcon_data, which nothing reads: it is in the
\* transaction here
_tcon_write(hw, a, w, b, name, arg) ==
    \E ok \in BOOLEAN :
        LET data == TconData(hw, a, w, b)
        IN  /\ tx' = <<TconWriteTx(data, ok)>>
            /\ tcon_written' = IF ok THEN data ELSE tcon_written
            /\ op' = Call(name, arg, ok, None)

\* _configure_tcon(wiper, r0hw, r0a, r0w, r0b) as __init__ calls it:
\* wiper_set(wiper), the four flags, _tcon_write().  failAt = 0 when no
\* transaction fails, else the index of the one that raises; the object of a
\* constructor that raised is never handed to the caller
_configure_tcon(wiper, hw, a, w, b) ==
    \E failAt \in 0..2 :
        LET data == TconData(hw, a, w, b)
            t1 == WiperSetTx(wiper, failAt # 1)
            t2 == TconWriteTx(data, failAt # 2)
            done == failAt = 0
        IN  /\ tx' = IF failAt = 1 THEN <<t1>> ELSE <<t1, t2>>
            /\ op' = Call("__init__", None, done, None)
            /\ phase' = IF done THEN "live" ELSE "none"
            /\ wiper_value' = IF done THEN wiper ELSE None
            /\ r0hw' = IF done THEN hw ELSE None
            /\ r0a' = IF done THEN a ELSE None
            /\ r0w' = IF done THEN w ELSE None
            /\ r0b' = IF done THEN b ELSE None
            /\ wiper_sent' = IF failAt = 1 THEN wiper_sent ELSE wiper
            /\ wiper_io' = IF failAt = 1 THEN wiper_io ELSE wiper
            /\ tcon_written' = IF done THEN data ELSE tcon_written

\* __init__ with terminal A connected by default
__init__all_connected ==
    /\ phase = "none"
    /\ _configure_tcon(255, TRUE, TRUE, TRUE, TRUE)

\* Mcp45hx51(i2c, address): wiper_value = None, then _configure_tcon() with
\* its default arguments
__init__ ==
    /\ phase = "none"
    /\ _configure_tcon(255, TRUE, FALSE, TRUE, TRUE)

\* wiper_set(value): the write, then the cache
wiper_set(value) ==
    /\ phase = "live"
    /\ \/ /\ ~InByteRange(value)
          /\ tx' = <<>>
          /\ op' = Call("wiper_set", value, FALSE, None)
          /\ UNCHANGED <<wiper_value, wiper_sent, wiper_io>>
       \/ /\ InByteRange(value)
          /\ \E ok \in BOOLEAN :
                /\ tx' = <<WiperSetTx(value, ok)>>
                /\ op' = Call("wiper_set", value, ok, None)
                /\ wiper_value' = IF ok THEN value ELSE wiper_value
                /\ wiper_sent' = IF ok THEN value ELSE wiper_sent
                /\ wiper_io' = IF ok THEN value ELSE wiper_io
    /\ UNCHANGED <<phase, r0hw, r0a, r0w, r0b, tcon_written>>

\* wiper_read that also stores what it read in wiper_value
wiper_read_caching ==
    /\ phase = "live"
    /\ \/ /\ tx' = <<WiperReadTx(<<>>, FALSE)>>
          /\ op' = Call("wiper_read", None, FALSE, None)
          /\ UNCHANGED <<wiper_io, wiper_value>>
       \/ \E b0 \in EchoBytes, b1 \in ByteSample :
             LET buf == <<b0, b1>>
             IN  /\ tx' = <<WiperReadTx(buf, TRUE)>>
                 /\ op' = Call("wiper_read", None, TRUE, buf[2])
                 /\ wiper_io' = buf[2]
                 /\ wiper_value' = buf[2]
    /\ UNCHANGED <<phase, r0hw, r0a, r0w, r0b, wiper_sent, tcon_written>>

\* wiper_read that returns the first of the two bytes read
wiper_read_first ==
    /\ phase = "live"
    /\ \/ /\ tx' = <<WiperReadTx(<<>>, FALSE)>>
          /\ op' = Call("wiper_read", None, FALSE, None)
          /\ UNCHANGED wiper_io
       \/ \E b0 \in EchoBytes, b1 \in ByteSample :
             LET buf == <<b0, b1>>
             IN  /\ tx' = <<WiperReadTx(buf, TRUE)>>
                 /\ op' = Call("wiper_read", None, TRUE, buf[1])
                 /\ wiper_io' = buf[1]
    /\ UNCHANGED <<phase, wiper_value, r0hw, r0a, r0w, r0b,
                   wiper_sent, tcon_written>>

\* wiper_read(): returns the second of the two bytes read
wiper_read ==
    /\ phase = "live"
    /\ \/ /\ tx' = <<WiperReadTx(<<>>, FALSE)>>
          /\ op' = Call("wiper_read", None, FALSE, None)
          /\ UNCHANGED wiper_io
       \/ \E b0 \in EchoBytes, b1 \in ByteSample :
             LET buf == <<b0, b1>>
             IN  /\ tx' = <<WiperReadTx(buf, TRUE)>>
                 /\ op' = Call("wiper_read", None, TRUE, buf[2])
                 /\ wiper_io' = buf[2]
    /\ UNCHANGED <<phase, wiper_value, r0hw, r0a, r0w, r0b,
                   wiper_sent, tcon_written>>

\* wiper_increment(offset)
wiper_increment(offset) ==
    /\ phase = "live"
    /\ \E failAt \in 0..RangeLen(offset) :
          /\ tx' = WiperIncLoop(offset, failAt)
          /\ op' = Call("wiper_increment", offset, failAt = 0, None)
    /\ UNCHANGED <<phase, wiper_value, r0hw, r0a, r0w, r0b,
                   wiper_sent, wiper_io, tcon_written>>

\* wiper_decrement(offset)
wiper_decrement(offset) ==
    /\ phase = "live"
    /\ \E failAt \in 0..RangeLen(offset) :
          /\ tx' = WiperDecLoop(offset, failAt)
          /\ op' = Call("wiper_decrement", offset, failAt = 0, None)
    /\ UNCHANGED <<phase, wiper_value, r0hw, r0a, r0w, r0b,
                   wiper_sent, wiper_io, tcon_written>>

\* tcon_read(): decodes the second byte read into the four flags and returns
\* the text that shows them, here the four values in the order of the text
tcon_read ==
    /\ phase = "live"
    /\ \/ /\ tx' = <<TconReadTx(<<>>, FALSE)>>
          /\ op' = Call("tcon_read", None, FALSE, None)
          /\ UNCHANGED <<r0hw, r0a, r0w, r0b>>
       \/ \E b0 \in EchoBytes, b1 \in TconReadBytes :
             LET buf == <<b0, b1>>
                 _tcon == buf[2]
             IN  /\ tx' = <<TconReadTx(buf, TRUE)>>
                 /\ r0b' = DecodeR0b(_tcon)
                 /\ r0w' = DecodeR0w(_tcon)
                 /\ r0a' = DecodeR0a(_tcon)
                 /\ r0hw' = DecodeR0hw(_tcon)
                 /\ op' = Call("tcon_read", None, TRUE,
                               <<r0hw', r0a', r0w', r0b'>>)
    /\ UNCHANGED <<phase, wiper_value, wiper_sent, wiper_io, tcon_written>>

\* poweroff(value): the flag, then _tcon_write()
poweroff(value) ==
    /\ phase = "live"
    /\ r0hw' = value
    /\ _tcon_write(value, r0a, r0w, r0b, "poweroff", value)
    /\ UNCHANGED <<phase, wiper_value, r0a, r0w, r0b, wiper_sent, wiper_io>>

\* connect_terminal_a(value)
connect_terminal_a(value) ==
    /\ phase = "live"
    /\ r0a' = value
    /\ _tcon_write(r0hw, value, r0w, r0b, "connect_terminal_a", value)
    /\ UNCHANGED <<phase, wiper_value, r0hw, r0w, r0b, wiper_sent, wiper_io>>

\* connect_terminal_b that sets the wiper flag
connect_terminal_b_sets_w(value) ==
    /\ phase = "live"
    /\ r0w' = value
    /\ _tcon_write(r0hw, r0a, value, r0b, "connect_terminal_b", value)
    /\ UNCHANGED <<phase, wiper_value, r0hw, r0a, r0b, wiper_sent, wiper_io>>

\* connect_terminal_b(value)
connect_terminal_b(value) ==
    /\ phase = "live"
    /\ r0b' = value
    /\ _tcon_write(r0hw, r0a, r0w, value, "connect_terminal_b", value)
    /\ UNCHANGED <<phase, wiper_value, r0hw, r0a, r0w, wiper_sent, wiper_io>>

\* connect_wiper(value)
connect_wiper(value) ==
    /\ phase = "live"
    /\ r0w' = value
    /\ _tcon_write(r0hw, r0a, value, r0b, "connect_wiper", value)
    /\ UNCHANGED <<phase, wiper_value, r0hw, r0a, r0b, wiper_sent, wiper_io>>

Next ==
    \/ __init__
    \/ \E value \in WiperInputs : wiper_set(value)
    \/ wiper_read
    \/ \E offset \in StepInputs : wiper_increment(offset)
    \/ \E offset \in StepInputs : wiper_decrement(offset)
    \/ tcon_read
    \/ \E value \in BOOLEAN : poweroff(value)
    \/ \E value \in BOOLEAN : connect_terminal_a(value)
    \/ \E value \in BOOLEAN : connect_terminal_b(value)
    \/ \E value \in BOOLEAN : connect_wiper(value)

Spec == Init /\ [][Next]_vars

\* The two halves of the driver, the Terminal-Control flags and the wiper
\* cache, share no field, so the properties of each are checked under the
\* calls that act on it.

\* construction and the setters
NextSetters ==
    \/ __init__
    \/ \E value \in WiperInputs : wiper_set(value)
    \/ \E value \in BOOLEAN : poweroff(value)
    \/ \E value \in BOOLEAN : connect_terminal_a(value)
    \/ \E value \in BOOLEAN : connect_terminal_b(value)
    \/ \E value \in BOOLEAN : connect_wiper(value)

SpecSetters == Init /\ [][NextSetters]_vars

\* construction, the wiper methods and the two reads
NextWiper ==
    \/ __init__
    \/ \E value \in WiperInputs : wiper_set(value)
    \/ wiper_read
    \/ \E offset \in StepInputs : wiper_increment(offset)
    \/ \E offset \in StepInputs : wiper_decrement(offset)
    \/ tcon_read

SpecWiper == Init /\ [][NextWiper]_vars

(***************************************************************************)
(* Properties                                                              *)
(***************************************************************************)
\* 0xF0 | (r0b<<0) | (r0w<<1) | (r0a<<2) | (r0hw<<3), as the encoding table
\* of the specification states it
OrEncoding(hw, a, w, b) ==
    BitOr(BitOr(BitOr(BitOr(240, IntOf(b) * 1), IntOf(w) * 2), IntOf(a) * 4),
          IntOf(hw) * 8)

\* bit n of a byte is set
BitSet(byte, n) == (byte \div (2 ^ n)) % 2 = 1

FlagSetters ==
    {"poweroff", "connect_terminal_a", "connect_terminal_b", "connect_wiper"}

\* C1: every byte _tcon_write sends goes to the Terminal-Control register
\* with command byte 0x40, has bits 4-7 set, and equals
\* 0xF0 | (r0b<<0) | (r0w<<1) | (r0a<<2) | (r0hw<<3) of the cached flags.
C1_TconByte ==
    \A i \in DOMAIN tx :
        tx[i].by = "_tcon_write" =>
            /\ tx[i].kind = "writeto_mem"
            /\ tx[i].memaddr = 64
            /\ Len(tx[i].buf) = 1
            /\ tx[i].buf[1] \div 16 = 15
            /\ phase = "live" =>
                   tx[i].buf[1] = OrEncoding(r0hw, r0a, r0w, r0b)

\* poweroff(False) with only terminal A connected has written 0xF4
C1_Witness ==
    /\ phase = "live"
    /\ op.name = "poweroff"
    /\ ~r0hw /\ r0a /\ ~r0w /\ ~r0b
    /\ tx = <<Tx("_tcon_write", "writeto_mem", 64, <<244>>, 1, TRUE)>>

\* C2: a construction that returns has issued exactly two transactions, the
\* write of 255 to the Wiper register (command byte 0x00) and then the write
\* of 0xFB to the Terminal-Control register (command byte 0x40), and leaves
\* wiper_value = 255, r0hw = True, r0a = False, r0w = True, r0b = True.
C2_Construction ==
    (op.name = "__init__" /\ op.ok) =>
        /\ tx = << Tx("wiper_set", "writeto_mem", 0, <<255>>, 1, TRUE),
                   Tx("_tcon_write", "writeto_mem", 64, <<251>>, 1, TRUE) >>
        /\ phase = "live"
        /\ wiper_value = 255
        /\ r0hw = TRUE /\ r0a = FALSE /\ r0w = TRUE /\ r0b = TRUE

\* a construction has returned
C2_Witness ==
    /\ op.name = "__init__" /\ op.ok
    /\ phase = "live"
    /\ Len(tx) = 2

\* C3: a wiper_set(value) that returns has issued exactly one transaction,
\* the register write with command byte 0x00 and payload value, value is a
\* byte, and the cached wiper_value is value.
C3_WiperSet ==
    (op.name = "wiper_set" /\ op.ok) =>
        /\ op.arg \in 0..255
        /\ tx = <<Tx("wiper_set", "writeto_mem", 0, <<op.arg>>, 1, TRUE)>>
        /\ wiper_value = op.arg

\* wiper_set(0) has returned while the flags are not the default ones
C3_Witness ==
    /\ phase = "live"
    /\ op.name = "wiper_set" /\ op.ok /\ op.arg = 0
    /\ wiper_value = 0
    /\ r0a

\* C4: a wiper_increment(n) that returns, n >= 0, has issued exactly n raw
\* writes of the single byte 0x04 and nothing else; a wiper_decrement(n)
\* exactly n raw writes of 0x08; none for n = 0.
C4_Steps ==
    /\ (op.name = "wiper_increment" /\ op.ok /\ op.arg >= 0) =>
          /\ Len(tx) = op.arg
          /\ \A i \in DOMAIN tx :
                tx[i] = Tx("wiper_increment", "writeto", None, <<4>>, 1, TRUE)
    /\ (op.name = "wiper_decrement" /\ op.ok /\ op.arg >= 0) =>
          /\ Len(tx) = op.arg
          /\ \A i \in DOMAIN tx :
                tx[i] = Tx("wiper_decrement", "writeto", None, <<8>>, 1, TRUE)

\* wiper_decrement(2) has returned after two transactions
C4_Witness ==
    /\ op.name = "wiper_decrement" /\ op.ok /\ op.arg = 2
    /\ Len(tx) = 2

\* C5: a flag setter that returns has set its own flag to the argument, left
\* the other three flags and wiper_value as they were, and issued exactly one
\* Terminal-Control write, of the byte that encodes the four flags as they
\* stand after the change.
C5_Setters ==
    [][ (op'.name \in FlagSetters /\ op'.ok) =>
          /\ r0hw' = IF op'.name = "poweroff" THEN op'.arg ELSE r0hw
          /\ r0a' = IF op'.name = "connect_terminal_a" THEN op'.arg ELSE r0a
          /\ r0b' = IF op'.name = "connect_terminal_b" THEN op'.arg ELSE r0b
          /\ r0w' = IF op'.name = "connect_wiper" THEN op'.arg ELSE r0w
          /\ wiper_value' = wiper_value
          /\ tx' = <<Tx("_tcon_write", "writeto_mem", 64,
                        <<OrEncoding(r0hw', r0a', r0w', r0b')>>, 1, TRUE)>>
      ]_vars

\* poweroff(False) has returned: r0hw is False and the byte written, 0xF3,
\* has bit 3 clear
C5_Witness ==
    /\ phase = "live"
    /\ op.name = "poweroff" /\ op.ok /\ op.arg = FALSE
    /\ ~r0hw /\ ~r0a /\ r0w /\ r0b
    /\ wiper_value = 255
    /\ tx[1].buf = <<243>>

\* C6: a setter whose bus write failed leaves the four cached flags and the
\* cached wiper_value as they were before the call.
C6_FailedSetter ==
    [][ (op'.name \in (FlagSetters \cup {"wiper_set"}) /\ ~op'.ok) =>
          /\ r0hw' = r0hw
          /\ r0a' = r0a
          /\ r0w' = r0w
          /\ r0b' = r0b
          /\ wiper_value' = wiper_value
      ]_vars

\* C7: after a tcon_read of a register byte 0xF0 | n, the flags are bit 0
\* (r0b), bit 1 (r0w), bit 2 (r0a) and bit 3 (r0hw) of the byte, and the
\* encoding of _tcon_write gives the byte back.
C7_RoundTrip ==
    (op.name = "tcon_read" /\ op.ok /\ tx[1].buf[2] \div 16 = 15) =>
        /\ r0b = BitSet(tx[1].buf[2], 0)
        /\ r0w = BitSet(tx[1].buf[2], 1)
        /\ r0a = BitSet(tx[1].buf[2], 2)
        /\ r0hw = BitSet(tx[1].buf[2], 3)
        /\ TconData(r0hw, r0a, r0w, r0b) = tx[1].buf[2]

\* tcon_read has read 0xF6
C7_Witness ==
    /\ op.name = "tcon_read" /\ op.ok
    /\ tx[1].buf[2] = 246
    /\ ~r0hw /\ r0a /\ r0w /\ ~r0b

\* C8: between public calls, the low nibble of the last byte written to the
\* Terminal-Control register is the encoding of the four cached flags.
C8_FlagsMatchRegister ==
    phase = "live" =>
        tcon_written % 16 = OrEncoding(r0hw, r0a, r0w, r0b) % 16

\* C9 as stated: the cached wiper_value is the last value sent to or read
\* from the Wiper register, whichever of wiper_set and wiper_read came last.
C9_LastSentOrRead ==
    phase = "live" => wiper_value = wiper_io

\* C9 as amended: the cached wiper_value is the payload of the latest
\* wiper_set whose write the bus accepted (the one of the construction
\* included); what wiper_read returns is not cached.
C9_LastSent ==
    phase = "live" => wiper_value = wiper_sent

\* wiper_read has returned a value that is not the cached one
C9_Witness ==
    /\ phase = "live"
    /\ op.name = "wiper_read" /\ op.ok
    /\ op.ret # wiper_value
    /\ wiper_value = wiper_sent
    /\ wiper_io = op.ret

\* C10: wiper_read, wiper_increment and wiper_decrement leave wiper_value and
\* the four flags as they were, whether they return or raise; wiper_read
\* issues exactly one transaction, a read of 2 bytes with command byte 0x0C,
\* and returns the second byte received.
C10_WiperFrame ==
    [][ (op'.name \in {"wiper_read", "wiper_increment", "wiper_decrement"}) =>
          /\ wiper_value' = wiper_value
          /\ r0hw' = r0hw
          /\ r0a' = r0a
          /\ r0w' = r0w
          /\ r0b' = r0b
          /\ op'.name = "wiper_read" =>
                /\ Len(tx') = 1
                /\ tx'[1].kind = "readfrom_mem"
                /\ tx'[1].memaddr = 12
                /\ tx'[1].nbytes = 2
                /\ op'.ok =>
                      /\ tx'[1].ok
                      /\ Len(tx'[1].buf) = 2
                      /\ op'.ret = tx'[1].buf[2]
      ]_vars

\* wiper_read has received 0x00 0xFE and returned 0xFE, the cache holding 0
C10_Witness ==
    /\ phase = "live"
    /\ op.name = "wiper_read" /\ op.ok
    /\ tx[1].buf = <<0, 254>>
    /\ op.ret = 254
    /\ wiper_value = 0

====
